---- MODULE Spec2Model ----
(***************************************************************************)
(* The event ledger of UniVerse-Campus, services/apiService.ts, and the    *)
(* calendar that shows it.                                                 *)
(*                                                                         *)
(* The ledger is the module-level array `events`, loaded from the          *)
(* localStorage slot 'universe_events' when the module is evaluated and    *)
(* written back after every successful mutation.  Every operation of       *)
(* apiService is an async function that first awaits simulateDelay() and   *)
(* then runs its body to the end without another await: a call is in       *)
(* flight from the moment it is made until its timer fires, and the body   *)
(* after the await is one atomic step of the single JavaScript thread.     *)
(*                                                                         *)
(* components/Calendar.tsx is the month grid drawn from the list of events *)
(* and the effect that puts the events into its cells; its state is the    *)
(* variable `calendar`.                                                    *)
(*                                                                         *)
(* Strings are modelled by what the code does with them:                   *)
(*   a date string 'YYYY-MM-DD' is the tuple <<y, m, d>>, a time string    *)
(*   'HH:MM' the tuple <<h, m>>, and the empty string is <<>>.             *)
(***************************************************************************)
EXTENDS Integers, Sequences, FiniteSets, Bags, TLC

VARIABLES
    events,     \* part_005:83   the in-memory array of Event objects
    storage,    \* part_005:16   the content of the localStorage slot
    pending,    \* the bag of calls awaiting simulateDelay() (part_005:31)
    last,       \* the outcome of the call that settled last
    settled,    \* the bag of what the settled calls reported to their callers
    calendar,   \* Calendar.tsx: the state of the Calendar component
    app         \* App.tsx and the dashboards: the state of the page

vars == <<events, storage, pending, last, settled, calendar, app>>

-----------------------------------------------------------------------------
(* Bounds of the model.                                                    *)

\* Calls made in one behaviour (in flight or settled).
MaxCalls == 2

\* Calls in flight at the same time.
MaxPending == 2

\* Calls launched together in a race.
MaxRacers == 3

-----------------------------------------------------------------------------
(* Dates and times.                                                        *)

EmptyString == <<>>

IsLeapYear(y) == (y % 4 = 0 /\ y % 100 # 0) \/ y % 400 = 0

DaysInMonth(y, m) ==
    IF m = 2 THEN (IF IsLeapYear(y) THEN 29 ELSE 28)
    ELSE IF m \in {4, 6, 9, 11} THEN 30 ELSE 31

\* Days from 1970-01-01 to y-m-d (proleptic Gregorian calendar).
DaysFromCivil(y, m, d) ==
    LET yy  == IF m <= 2 THEN y - 1 ELSE y
        era == yy \div 400
        yoe == yy - era * 400
        mp  == (m + 9) % 12
        doy == (153 * mp + 2) \div 5 + d - 1
        doe == yoe * 365 + yoe \div 4 - yoe \div 100 + doy
    IN  era * 146097 + doe - 719468

\* 'YYYY-MM-DD' with a month 01..12 and a day of that month.
ValidDateString(date) ==
    /\ Len(date) = 3
    /\ date[2] \in 1..12
    /\ date[3] \in 1..DaysInMonth(date[1], date[2])

\* 'HH:MM' with 00..23 hours and 00..59 minutes.
ValidTimeString(time) ==
    /\ Len(time) = 2
    /\ time[1] \in 0..23
    /\ time[2] \in 0..59

\* new Date(NaN): every comparison with it is false.
InvalidDate == [valid |-> FALSE, minutes |-> 0]

\* getDateTime: new Date(`${date}T${time}:00`), a local wall-clock instant
\* (in a zone without daylight-saving transitions), or an Invalid Date when
\* the text is no date-time.  The seconds are always :00, so the instant is
\* kept in minutes since the epoch instead of milliseconds.
getDateTime(date, time) ==
    IF ValidDateString(date) /\ ValidTimeString(time)
    THEN [valid   |-> TRUE,
          minutes |-> (DaysFromCivil(date[1], date[2], date[3]) * 24 + time[1]) * 60
                      + time[2]]
    ELSE InvalidDate

\* a < b and a >= b on Date objects: both convert to numbers, NaN compares false.
DateLt(a, b) == a.valid /\ b.valid /\ a.minutes < b.minutes
DateGe(a, b) == a.valid /\ b.valid /\ a.minutes >= b.minutes

-----------------------------------------------------------------------------
(* Objects.                                                                *)

\* { ...a, ...b }
Spread(a, b) ==
    [f \in DOMAIN a \cup DOMAIN b |-> IF f \in DOMAIN b THEN b[f] ELSE a[f]]

EventFields ==
    {"id", "name", "description", "date", "startTime", "endTime", "location",
     "capacity", "registeredParticipants", "organizer"}

NewEventFields == EventFields \ {"id", "registeredParticipants"}

NumberFields == {"capacity", "registeredParticipants"}

-----------------------------------------------------------------------------
(* The localStorage slot.                                                  *)

\* getItem returns null: nothing was ever stored under the key.
NoItem == [kind |-> "null"]

\* window.localStorage is not accessible: getItem and setItem throw.
Unreadable == [kind |-> "throws"]

\* A text that JSON.parse rejects.
MalformedText == [kind |-> "text", malformed |-> TRUE]

\* The text '{}': JSON.parse accepts it and returns an object, not an array.
ObjectText == [kind |-> "text", malformed |-> FALSE, object |-> TRUE]

\* The object {} held by `events` where an array is expected.  It is written
\* as a one-element tuple so that it can be compared with arrays; IsArray
\* tells the two apart.
EmptyObject == <<[object |-> TRUE]>>

\* Array.isArray(v), for the values `events` can hold.
IsArray(v) == ~(Len(v) = 1 /\ "object" \in DOMAIN v[1])

\* JSON.stringify of one value: a number is written as a JSON number, a
\* string as a JSON string.
JSONvalue(f, v) == IF f \in NumberFields THEN [number |-> v] ELSE [string |-> v]

\* JSON.stringify(currentEvents): the text of an array of objects.
JSONstringify(currentEvents) ==
    [kind |-> "text", malformed |-> FALSE,
     array |-> [i \in DOMAIN currentEvents |->
                  [f \in DOMAIN currentEvents[i] |->
                      JSONvalue(f, currentEvents[i][f])]]]

\* JSON.parse(text) of a well-formed text: the array it denotes, or the
\* object.
JSONparse(text) ==
    IF "array" \in DOMAIN text
    THEN [i \in DOMAIN text.array |->
            [f \in DOMAIN text.array[i] |->
                IF "number" \in DOMAIN text.array[i][f]
                THEN text.array[i][f].number ELSE text.array[i][f].string]]
    ELSE EmptyObject

\* loadEventsFromLocalStorage: [] when getItem throws or JSON.parse throws
\* (the catch branch) and for an empty slot; otherwise whatever JSON.parse
\* returns.
loadEventsFromLocalStorage(slot) ==
    IF slot.kind = "throws" THEN <<>>
    ELSE IF slot.kind = "null" THEN <<>>
    ELSE IF slot.malformed THEN <<>>
    ELSE JSONparse(slot)

\* saveEventsToLocalStorage: setItem may throw (quota, disabled storage);
\* the catch block logs and goes on, the slot keeps its old content.
saveEventsToLocalStorage(slot, currentEvents, setItemOk) ==
    IF setItemOk /\ slot.kind # "throws" THEN JSONstringify(currentEvents) ELSE slot

-----------------------------------------------------------------------------
(* Outcomes of a call.                                                     *)

Resolved(v) == [settled |-> "resolved", value |-> v]
Rejected(e) == [settled |-> "rejected", error |-> e]

ValidationError == [message |-> "Event end time must be after start time."]
NotFoundError   == [message |-> "Event not found."]
CapacityError   == [message |-> "Event is full."]

\* `Clash detected: Event "${name}" (${date} ${startTime}-${endTime}) overlaps
\* with the proposed time.`
ClashError(existingEvent) ==
    [message   |-> "Clash detected",
     name      |-> existingEvent.name,
     date      |-> existingEvent.date,
     startTime |-> existingEvent.startTime,
     endTime   |-> existingEvent.endTime]

\* The TypeError of a for...of over, or an array method called on, a value
\* that is no array.
TypeError == [message |-> "TypeError"]

Undefined == [undefined |-> TRUE]

-----------------------------------------------------------------------------
(* apiService.createEvent, after the await.                                *)

\* overlap with the dates left out of the comparison: only the times of day
\* are compared.
overlap_TimesOnly(newEvent, existingEvent) ==
    /\ DateLt(getDateTime(<<1970, 1, 1>>, newEvent.startTime),
              getDateTime(<<1970, 1, 1>>, existingEvent.endTime))
    /\ DateLt(getDateTime(<<1970, 1, 1>>, existingEvent.startTime),
              getDateTime(<<1970, 1, 1>>, newEvent.endTime))

\* overlap that only sees a candidate reaching beyond the stored event on
\* both sides.
overlap_Containment(newEvent, existingEvent) ==
    /\ DateLt(getDateTime(newEvent.date, newEvent.startTime),
              getDateTime(existingEvent.date, existingEvent.startTime))
    /\ DateLt(getDateTime(existingEvent.date, existingEvent.endTime),
              getDateTime(newEvent.date, newEvent.endTime))

\* overlap on closed intervals: spans that only touch count as overlapping.
overlap_Closed(newEvent, existingEvent) ==
    /\ DateGe(getDateTime(existingEvent.date, existingEvent.endTime),
              getDateTime(newEvent.date, newEvent.startTime))
    /\ DateGe(getDateTime(newEvent.date, newEvent.endTime),
              getDateTime(existingEvent.date, existingEvent.startTime))

\* overlap that only counts events held in the same place.
overlap_SamePlace(newEvent, existingEvent) ==
    /\ newEvent.location = existingEvent.location
    /\ DateLt(getDateTime(newEvent.date, newEvent.startTime),
              getDateTime(existingEvent.date, existingEvent.endTime))
    /\ DateLt(getDateTime(existingEvent.date, existingEvent.startTime),
              getDateTime(newEvent.date, newEvent.endTime))

\* const overlap = (newEventStart < existingEventEnd &&
\*                  newEventEnd > existingEventStart)
overlap(newEvent, existingEvent) ==
    /\ DateLt(getDateTime(newEvent.date, newEvent.startTime),
              getDateTime(existingEvent.date, existingEvent.endTime))
    /\ DateLt(getDateTime(existingEvent.date, existingEvent.startTime),
              getDateTime(newEvent.date, newEvent.endTime))

\* The indexes of the stored events the for-loop finds overlapping.
Clashes(newEvent, evs) == {i \in DOMAIN evs : overlap(newEvent, evs[i])}

\* The loop going on to the last overlapping event before it throws.
FirstClash_Last(newEvent, evs) ==
    CHOOSE i \in Clashes(newEvent, evs) : \A j \in Clashes(newEvent, evs) : i >= j

\* The loop throws at the first one in storage order.
FirstClash(newEvent, evs) ==
    CHOOSE i \in Clashes(newEvent, evs) : \A j \in Clashes(newEvent, evs) : i <= j

\* The check written with > for >=: an empty span passes.
EndNotAfterStart_Strict(newEvent) ==
    DateLt(getDateTime(newEvent.date, newEvent.endTime),
           getDateTime(newEvent.date, newEvent.startTime))

\* if (newEventStart >= newEventEnd) throw ...
EndNotAfterStart(newEvent) ==
    DateGe(getDateTime(newEvent.date, newEvent.startTime),
           getDateTime(newEvent.date, newEvent.endTime))

\* const event = { ...newEvent, id: generateId(), registeredParticipants: 0 }
NewStoredEvent(newEvent, id) ==
    Spread(newEvent, [id |-> id, registeredParticipants |-> 0])

\* createEvent with the clash loop run before the check of the span.
createEvent_ClashFirst(evs, slot, newEvent, id, setItemOk) ==
    IF ~IsArray(evs)
    THEN <<evs, slot, Rejected(TypeError)>>
    ELSE IF Clashes(newEvent, evs) # {}
    THEN <<evs, slot, Rejected(ClashError(evs[FirstClash(newEvent, evs)]))>>
    ELSE IF EndNotAfterStart(newEvent)
    THEN <<evs, slot, Rejected(ValidationError)>>
    ELSE LET event == NewStoredEvent(newEvent, id)
             pushed == Append(evs, event)
         IN  <<pushed, saveEventsToLocalStorage(slot, pushed, setItemOk),
               Resolved(event)>>

\* The whole body: <<events', storage', outcome>>.
createEvent(evs, slot, newEvent, id, setItemOk) ==
    IF EndNotAfterStart(newEvent)
    THEN <<evs, slot, Rejected(ValidationError)>>
    ELSE IF ~IsArray(evs)
    THEN <<evs, slot, Rejected(TypeError)>>
    ELSE IF Clashes(newEvent, evs) # {}
    THEN <<evs, slot, Rejected(ClashError(evs[FirstClash(newEvent, evs)]))>>
    ELSE LET event == NewStoredEvent(newEvent, id)
             pushed == Append(evs, event)
         IN  <<pushed, saveEventsToLocalStorage(slot, pushed, setItemOk),
               Resolved(event)>>

-----------------------------------------------------------------------------
(* apiService.registerForEvent and apiService.updateEvent, after the await.*)

\* events.findIndex(event => event.id === id); 0 stands for -1.
findIndex(evs, id) ==
    IF \E i \in DOMAIN evs : evs[i].id = id
    THEN CHOOSE i \in DOMAIN evs :
            /\ evs[i].id = id
            /\ \A j \in DOMAIN evs : evs[j].id = id => i <= j
    ELSE 0

\* registerForEvent returning quietly for an unknown id.
registerForEvent_SilentNotFound(evs, slot, id, setItemOk) ==
    LET eventIndex == findIndex(evs, id)
    IN  IF eventIndex = 0
        THEN <<evs, slot, Resolved(Undefined)>>
        ELSE LET event == evs[eventIndex]
             IN  IF event.registeredParticipants >= event.capacity
                 THEN <<evs, slot, Rejected(CapacityError)>>
                 ELSE LET updated ==
                            [evs EXCEPT ![eventIndex] =
                                Spread(event, [registeredParticipants |->
                                                 event.registeredParticipants + 1])]
                      IN  <<updated,
                            saveEventsToLocalStorage(slot, updated, setItemOk),
                            Resolved(Undefined)>>

\* registerForEvent with the capacity check written with > for >=.
registerForEvent_OffByOne(evs, slot, id, setItemOk) ==
    LET eventIndex == findIndex(evs, id)
    IN  IF eventIndex = 0
        THEN <<evs, slot, Rejected(NotFoundError)>>
        ELSE LET event == evs[eventIndex]
             IN  IF event.registeredParticipants > event.capacity
                 THEN <<evs, slot, Rejected(CapacityError)>>
                 ELSE LET updated ==
                            [evs EXCEPT ![eventIndex] =
                                Spread(event, [registeredParticipants |->
                                                 event.registeredParticipants + 1])]
                      IN  <<updated,
                            saveEventsToLocalStorage(slot, updated, setItemOk),
                            Resolved(Undefined)>>

\* registerForEvent without the capacity check.
registerForEvent_NoCapacityCheck(evs, slot, id, setItemOk) ==
    LET eventIndex == findIndex(evs, id)
    IN  IF eventIndex = 0
        THEN <<evs, slot, Rejected(NotFoundError)>>
        ELSE LET event == evs[eventIndex]
                 updated ==
                    [evs EXCEPT ![eventIndex] =
                        Spread(event, [registeredParticipants |->
                                         event.registeredParticipants + 1])]
             IN  <<updated, saveEventsToLocalStorage(slot, updated, setItemOk),
                   Resolved(Undefined)>>

\* registerForEvent that takes the event out of the array and pushes the
\* updated one at the end.
registerForEvent_MovesToEnd(evs, slot, id, setItemOk) ==
    LET eventIndex == findIndex(evs, id)
    IN  IF eventIndex = 0
        THEN <<evs, slot, Rejected(NotFoundError)>>
        ELSE LET event == evs[eventIndex]
             IN  IF event.registeredParticipants >= event.capacity
                 THEN <<evs, slot, Rejected(CapacityError)>>
                 ELSE LET updated ==
                            Append(SubSeq(evs, 1, eventIndex - 1)
                                      \o SubSeq(evs, eventIndex + 1, Len(evs)),
                                   Spread(event, [registeredParticipants |->
                                                    event.registeredParticipants + 1]))
                      IN  <<updated,
                            saveEventsToLocalStorage(slot, updated, setItemOk),
                            Resolved(Undefined)>>

registerForEvent(evs, slot, id, setItemOk) ==
    LET eventIndex == findIndex(evs, id)
    IN  IF ~IsArray(evs)
        THEN <<evs, slot, Rejected(TypeError)>>
        ELSE IF eventIndex = 0
        THEN <<evs, slot, Rejected(NotFoundError)>>
        ELSE LET event == evs[eventIndex]
             IN  IF event.registeredParticipants >= event.capacity
                 THEN <<evs, slot, Rejected(CapacityError)>>
                 ELSE LET updated ==
                            [evs EXCEPT ![eventIndex] =
                                Spread(event, [registeredParticipants |->
                                                 event.registeredParticipants + 1])]
                      IN  <<updated,
                            saveEventsToLocalStorage(slot, updated, setItemOk),
                            Resolved(Undefined)>>

updateEvent(evs, slot, id, updates, setItemOk) ==
    LET eventIndex == findIndex(evs, id)
    IN  IF ~IsArray(evs)
        THEN <<evs, slot, Rejected(TypeError)>>
        ELSE IF eventIndex = 0
        THEN <<evs, slot, Rejected(NotFoundError)>>
        ELSE LET updated ==
                    [evs EXCEPT ![eventIndex] = Spread(evs[eventIndex], updates)]
             IN  <<updated, saveEventsToLocalStorage(slot, updated, setItemOk),
                   Resolved(updated[eventIndex])>>

-----------------------------------------------------------------------------
(* The callers' inputs.                                                    *)

Jan15 == <<2025, 1, 15>>
Jan16 == <<2025, 1, 16>>

T1000 == <<10, 0>>
T1030 == <<10, 30>>
T1100 == <<11, 0>>
T1130 == <<11, 30>>

\* The date of a candidate.
Dates == {Jan15, Jan16}

\* <<startTime, endTime>>: spans that overlap (10:00-11:00 and 10:30-11:30,
\* 10:30-11:30 and 11:00-11:30), that touch (11:00-11:30 after 10:00-11:00),
\* an empty one and a reversed one.
Spans ==
    {<<T1000, T1100>>, <<T1030, T1130>>, <<T1100, T1130>>,
     <<T1030, T1030>>, <<T1100, T1000>>}

\* The capacity a caller passes; createEvent takes any number.
Capacities == {0 - 1, 1}

NewEvent(date, span, capacity) ==
    [name |-> "Talk", description |-> "About", date |-> date,
     startTime |-> span[1], endTime |-> span[2], location |-> "Hall",
     capacity |-> capacity, organizer |-> "Club"]

NewEvents ==
    {NewEvent(date, span, capacity) :
        date \in Dates, span \in Spans, capacity \in Capacities}

\* The strings generateId() can return: Math.random() draws them, nothing
\* compares them with the ids already stored.
Ids == {"k3x9", "p7q2"}

\* The partial events a caller passes to updateEvent.
Updates ==
    {[startTime |-> T1000], [capacity |-> 0], [registeredParticipants |-> 3],
     [id |-> "p7q2"]}

CreateCalls   == {[op |-> "createEvent", newEvent |-> n] : n \in NewEvents}
RegisterCalls == {[op |-> "registerForEvent", id |-> i] : i \in Ids}
UpdateCalls   ==
    {[op |-> "updateEvent", id |-> i, updates |-> u] : i \in Ids, u \in Updates}

-----------------------------------------------------------------------------
(* The state machine.                                                      *)

NoOutcome == [settled |-> "none"]

\* The Calendar component is not rendered.
Unmounted == [mounted |-> FALSE]

\* The page is not rendered: apiService is called directly.
NotStarted == [started |-> FALSE]

\* Arrays an earlier session of the page saved: one event created and not
\* yet registered for; two events created one after the other, the first
\* registered for once (so full), the second once (one place left).
SavedOne ==
    <<NewStoredEvent(NewEvent(Jan15, <<T1000, T1100>>, 1), "k3x9")>>

SavedTwo ==
    <<Spread(NewStoredEvent(NewEvent(Jan15, <<T1000, T1100>>, 1), "k3x9"),
             [registeredParticipants |-> 1]),
      Spread(NewStoredEvent(NewEvent(Jan15, <<T1100, T1130>>, 2), "p7q2"),
             [registeredParticipants |-> 1])>>

\* The slot when the module is evaluated: never written, or holding what an
\* earlier session saved.
InitialSlots == {NoItem, JSONstringify(SavedOne), JSONstringify(SavedTwo)}

\* let events: Event[] = loadEventsFromLocalStorage()
Init ==
    /\ storage \in InitialSlots
    /\ events = loadEventsFromLocalStorage(storage)
    /\ pending = EmptyBag
    /\ last = NoOutcome
    /\ settled = EmptyBag
    /\ calendar = Unmounted
    /\ app = NotStarted

InFlight == BagCardinality(pending)

\* A call is made: the async function runs up to `await simulateDelay()`.
Invoke(call) ==
    /\ InFlight < MaxPending
    /\ InFlight + BagCardinality(settled) < MaxCalls
    /\ pending' = pending (+) SetToBag({call})
    /\ UNCHANGED <<events, storage, last, settled, calendar, app>>

\* What the caller sees of an outcome.
Summary(outcome) ==
    IF outcome.settled = "resolved" THEN "resolved" ELSE outcome.error.message

\* The entry of a settled call: the operation, the id it was given (none for
\* createEvent) and what it reported.
Entry(call, outcome) ==
    [op     |-> call.op,
     id     |-> IF "id" \in DOMAIN call THEN call.id ELSE "",
     result |-> Summary(outcome)]

\* Settle for a call that waits until no other call is in flight.
Settle_WhenAlone(call, result) ==
    /\ BagIn(call, pending)
    /\ InFlight = 1
    /\ pending' = pending (-) SetToBag({call})
    /\ events' = result[1]
    /\ storage' = result[2]
    /\ last' = result[3]
    /\ settled' = settled (+) SetToBag({Entry(call, result[3])})
    /\ UNCHANGED <<calendar, app>>

\* The timer of a call in flight fires and the rest of the body runs to its
\* end.  Any call in flight may be the next to settle: browsers fire timers
\* of equal delay in the order they were set, and every order is a superset
\* of that.
Settle(call, result) ==
    /\ BagIn(call, pending)
    /\ pending' = pending (-) SetToBag({call})
    /\ events' = result[1]
    /\ storage' = result[2]
    /\ last' = result[3]
    /\ settled' = settled (+) SetToBag({Entry(call, result[3])})
    /\ UNCHANGED <<calendar, app>>

CallCreateEvent == \E call \in CreateCalls : Invoke(call)

CallRegisterForEvent == \E call \in RegisterCalls : Invoke(call)

CallUpdateEvent == \E call \in UpdateCalls : Invoke(call)

RunCreateEvent ==
    \E call \in CreateCalls, id \in Ids, setItemOk \in BOOLEAN :
        Settle(call, createEvent(events, storage, call.newEvent, id, setItemOk))

RunRegisterForEvent ==
    \E call \in RegisterCalls, setItemOk \in BOOLEAN :
        Settle(call, registerForEvent(events, storage, call.id, setItemOk))

RunUpdateEvent ==
    \E call \in UpdateCalls, setItemOk \in BOOLEAN :
        Settle(call, updateEvent(events, storage, call.id, call.updates, setItemOk))

Next ==
    \/ CallCreateEvent
    \/ CallRegisterForEvent
    \/ CallUpdateEvent
    \/ RunCreateEvent
    \/ RunRegisterForEvent
    \/ RunUpdateEvent

Spec == Init /\ [][Next]_vars

-----------------------------------------------------------------------------
(* What the specification says of events and spans, stated on the strings  *)
(* themselves and not on the Date objects the code builds from them.       *)

\* The time of day 'HH:MM' in minutes.
MinuteOfDay(time) == time[1] * 60 + time[2]

\* startTime < endTime
WellFormed(e) == MinuteOfDay(e.startTime) < MinuteOfDay(e.endTime)

\* Two spans on the same date whose [startTime, endTime) intervals intersect.
SpansOverlap(a, b) ==
    /\ a.date = b.date
    /\ MinuteOfDay(a.startTime) < MinuteOfDay(b.endTime)
    /\ MinuteOfDay(b.startTime) < MinuteOfDay(a.endTime)

\* The call that settles in a step from pending to pending'.
Settles(call) ==
    /\ BagIn(call, pending)
    /\ pending' = pending (-) SetToBag({call})

-----------------------------------------------------------------------------
(* Races: calls made together, all in flight before the first timer fires. *)
(* These are states Spec reaches by Invoke steps alone; here the page      *)
(* makes no further call, so the racing calls settle among themselves in   *)
(* every order.                                                            *)

\* n copies of one call.
Copies(call, n) == [c \in {call} |-> n]

\* The events with exactly one place left.
OnePlaceLeft(evs) ==
    {i \in DOMAIN evs : evs[i].capacity - evs[i].registeredParticipants = 1}

\* N registerForEvent calls for one event that has exactly one place left.
RegisterRaces ==
    {<<slot, Copies([op |-> "registerForEvent", id |-> id], n)>> :
        slot \in InitialSlots, id \in Ids, n \in 1..MaxRacers}

RegisterRaceInit ==
    \E race \in RegisterRaces :
        LET evs  == loadEventsFromLocalStorage(race[1])
            call == CHOOSE c \in BagToSet(race[2]) : TRUE
        IN  /\ findIndex(evs, call.id) \in OnePlaceLeft(evs)
            /\ storage = race[1]
            /\ events = evs
            /\ pending = race[2]

\* Two createEvent calls with well-formed candidates on the same date whose
\* times overlap each other.
CreateRaceInit ==
    \E slot \in InitialSlots, a \in CreateCalls, b \in CreateCalls :
        /\ WellFormed(a.newEvent)
        /\ WellFormed(b.newEvent)
        /\ SpansOverlap(a.newEvent, b.newEvent)
        /\ storage = slot
        /\ events = loadEventsFromLocalStorage(slot)
        /\ pending = SetToBag({a}) (+) SetToBag({b})

RaceInit ==
    /\ RegisterRaceInit \/ CreateRaceInit
    /\ last = NoOutcome
    /\ settled = EmptyBag
    /\ calendar = Unmounted
    /\ app = NotStarted

RaceNext ==
    \/ RunCreateEvent
    \/ RunRegisterForEvent

SpecRace == RaceInit /\ [][RaceNext]_vars

-----------------------------------------------------------------------------
(* C1: in every reachable state any two distinct stored events on the same *)
(* date have non-overlapping [startTime, endTime) intervals.               *)
(* updateEvent merges a new startTime into a stored event without any      *)
(* overlap check, so the statement is violated.                            *)
C1_NoOverlappingEvents ==
    \A i, j \in DOMAIN events :
        (i < j /\ events[i].date = events[j].date)
            => ~SpansOverlap(events[i], events[j])

(* C2: in every reachable state every stored event has                     *)
(* 0 <= registeredParticipants <= capacity.  createEvent stores whatever   *)
(* capacity it is given, so the statement is violated.                     *)
C2_RegisteredWithinCapacity ==
    \A i \in DOMAIN events :
        /\ 0 <= events[i].registeredParticipants
        /\ events[i].registeredParticipants <= events[i].capacity

\* The calls of a race, settled or not, are all registerForEvent(id).
RegisterRaceFor(id) ==
    /\ \A call \in BagToSet(pending) : call.op = "registerForEvent" /\ call.id = id
    /\ \A entry \in BagToSet(settled) : entry.op = "registerForEvent" /\ entry.id = id

\* How many settled registerForEvent(id) calls reported `result`.
Reported(id, result) ==
    CopiesIn([op |-> "registerForEvent", id |-> id, result |-> result], settled)

(* C3: N registerForEvent calls for one event are in flight together and   *)
(* the event has exactly one place left (RegisterRaceInit).  Once all have *)
(* settled, in whatever order, exactly one has resolved, the other N-1     *)
(* have rejected with 'Event is full.', and the event's                    *)
(* registeredParticipants equals its capacity.                             *)
C3_OneWinnerPerLastPlace ==
    \A id \in Ids :
        (RegisterRaceFor(id) /\ InFlight = 0)
            => /\ Reported(id, "resolved") = 1
               /\ Reported(id, "Event is full.") = BagCardinality(settled) - 1
               /\ \E i \in DOMAIN events :
                     /\ events[i].id = id
                     /\ events[i].registeredParticipants = events[i].capacity

\* Three registrations raced for the last place: one won, two were refused.
C3_Witness ==
    \E id \in Ids :
        /\ RegisterRaceFor(id)
        /\ InFlight = 0
        /\ Reported(id, "resolved") = 1
        /\ Reported(id, "Event is full.") = 2

\* How many settled createEvent calls reported `result`.
Created(result) == CopiesIn([op |-> "createEvent", id |-> "", result |-> result], settled)

\* The calls of a race, settled or not, are all createEvent.
CreateRace ==
    /\ \A call \in BagToSet(pending) : call.op = "createEvent"
    /\ \A entry \in BagToSet(settled) : entry.op = "createEvent"

(* C4: two createEvent calls whose spans overlap each other are in flight  *)
(* together (CreateRaceInit).  At most one of them resolves, and when one  *)
(* has resolved the other, settling after it, rejects with a clash error.  *)
C4_OverlappingCreatesExclude ==
    CreateRace =>
        /\ Created("resolved") <= 1
        /\ (Created("resolved") = 1 /\ InFlight = 0)
              => Created("Clash detected") = 1

\* Both calls have settled on a ledger that was empty: one event is stored
\* and the other call was refused for clashing with it.
C4_Witness ==
    /\ CreateRace
    /\ InFlight = 0
    /\ Created("resolved") = 1
    /\ Created("Clash detected") = 1
    /\ Len(events) = 1

(* C5: createEvent with a candidate whose startTime is not strictly before *)
(* its endTime rejects with 'Event end time must be after start time.' and *)
(* leaves the array and the storage slot as they were.  The candidates are *)
(* NewEvents of the data model: a calendar date and two HH:MM times.       *)
C5_MalformedSpanRejected ==
    [][\A call \in BagToSet(pending) :
          (/\ call.op = "createEvent"
           /\ Settles(call)
           /\ ~WellFormed(call.newEvent))
              => /\ last'.settled = "rejected"
                 /\ last'.error.message = "Event end time must be after start time."
                 /\ events' = events
                 /\ storage' = storage]_vars

\* A malformed candidate was rejected while events were stored and saved.
C5_Witness ==
    /\ last = Rejected(ValidationError)
    /\ Len(events) > 0
    /\ storage = JSONstringify(events)

(* C6: createEvent with a well-formed candidate whose span overlaps a      *)
(* stored event rejects with a clash error that carries the name, date and *)
(* times of a stored event the candidate overlaps, and leaves the array    *)
(* and the storage slot as they were.                                      *)
C6_ClashRejectedNamingConflict ==
    [][\A call \in BagToSet(pending) :
          (/\ call.op = "createEvent"
           /\ Settles(call)
           /\ WellFormed(call.newEvent)
           /\ \E i \in DOMAIN events : SpansOverlap(call.newEvent, events[i]))
              => /\ last'.settled = "rejected"
                 /\ last'.error.message = "Clash detected"
                 /\ \E i \in DOMAIN events :
                        /\ SpansOverlap(call.newEvent, events[i])
                        /\ last'.error.name = events[i].name
                        /\ last'.error.date = events[i].date
                        /\ last'.error.startTime = events[i].startTime
                        /\ last'.error.endTime = events[i].endTime
                 /\ events' = events
                 /\ storage' = storage]_vars

\* A clash was reported that names the second of two stored events.
C6_Witness ==
    /\ last.settled = "rejected"
    /\ last.error.message = "Clash detected"
    /\ Len(events) >= 2
    /\ last.error.startTime = events[2].startTime
    /\ last.error.startTime # events[1].startTime

(* C7: createEvent with a well-formed candidate that overlaps no stored    *)
(* event resolves with the candidate's fields and registeredParticipants   *)
(* = 0, appends that event at the end of the array, leaves the stored      *)
(* events as they were, and the slot holds the new array.  When setItem    *)
(* throws, the slot keeps the old array: the statement is violated.        *)
C7_CreateAppendsAndPersists ==
    [][\A call \in BagToSet(pending) :
          (/\ call.op = "createEvent"
           /\ Settles(call)
           /\ WellFormed(call.newEvent)
           /\ \A i \in DOMAIN events : ~SpansOverlap(call.newEvent, events[i]))
              => /\ last'.settled = "resolved"
                 /\ \A f \in DOMAIN call.newEvent : last'.value[f] = call.newEvent[f]
                 /\ last'.value.registeredParticipants = 0
                 /\ events' = Append(events, last'.value)
                 /\ storage' = JSONstringify(events')]_vars

(* C8: the id createEvent assigns is not the id of an event already        *)
(* stored.  generateId() draws from Math.random() and nothing compares the *)
(* result with the stored ids, so the statement is violated.               *)
C8_FreshId ==
    [][\A call \in BagToSet(pending) :
          (/\ call.op = "createEvent"
           /\ Settles(call)
           /\ last'.settled = "resolved")
              => \A i \in DOMAIN events : events[i].id # last'.value.id]_vars

(* C9: registerForEvent with an id no stored event has rejects with        *)
(* 'Event not found.' and leaves the array and the storage slot as they    *)
(* were.                                                                   *)
C9_UnknownIdRejected ==
    [][\A call \in BagToSet(pending) :
          (/\ call.op = "registerForEvent"
           /\ Settles(call)
           /\ \A i \in DOMAIN events : events[i].id # call.id)
              => /\ last'.settled = "rejected"
                 /\ last'.error.message = "Event not found."
                 /\ events' = events
                 /\ storage' = storage]_vars

\* A registration for an unknown id was rejected while another event is stored.
C9_Witness ==
    /\ last = Rejected(NotFoundError)
    /\ Len(events) > 0
    /\ \E entry \in BagToSet(settled) :
          /\ entry.op = "registerForEvent"
          /\ entry.result = "Event not found."
          /\ \A i \in DOMAIN events : events[i].id # entry.id

(* C10: registerForEvent on an event whose registeredParticipants has      *)
(* reached its capacity rejects with 'Event is full.'; the count, the rest *)
(* of the array and the storage slot stay as they were.                    *)
C10_FullEventRejected ==
    [][\A call \in BagToSet(pending) :
          (/\ call.op = "registerForEvent"
           /\ Settles(call)
           /\ \E i \in DOMAIN events :
                 /\ events[i].id = call.id
                 /\ \A j \in 1..(i - 1) : events[j].id # call.id
                 /\ events[i].registeredParticipants >= events[i].capacity)
              => /\ last'.settled = "rejected"
                 /\ last'.error.message = "Event is full."
                 /\ events' = events
                 /\ storage' = storage]_vars

\* A registration was rejected by an event with a positive capacity that is full.
C10_Witness ==
    /\ last = Rejected(CapacityError)
    /\ \E entry \in BagToSet(settled), i \in DOMAIN events :
          /\ entry.op = "registerForEvent"
          /\ entry.result = "Event is full."
          /\ events[i].id = entry.id
          /\ events[i].capacity > 0
          /\ events[i].registeredParticipants = events[i].capacity

(* C11: whenever a createEvent or registerForEvent call resolves, the slot *)
(* holds the serialization of the array as it is at that moment.  When     *)
(* setItem throws, the call resolves all the same and the slot keeps its   *)
(* old content: the statement is violated.                                 *)
C11_ResolvedMeansPersisted ==
    [][\A call \in BagToSet(pending) :
          (/\ call.op \in {"createEvent", "registerForEvent"}
           /\ Settles(call)
           /\ last'.settled = "resolved")
              => storage' = JSONstringify(events')]_vars

(* C17: the id of a stored event never changes: in every step each event   *)
(* of the array keeps its position and its id.  updateEvent spreads the    *)
(* caller's fields over the stored event, id included: the statement is    *)
(* violated.                                                               *)
C17_IdNeverChanges ==
    [][\A i \in DOMAIN events :
          /\ i \in DOMAIN events'
          /\ events'[i].id = events[i].id]_vars

(* C20: a well-formed candidate is rejected by createEvent exactly when    *)
(* some stored event lies on the same date with candidateStart < its end   *)
(* and its start < candidateEnd; a candidate that starts when a stored     *)
(* event ends, or ends when one starts, is accepted.                       *)
C20_HalfOpenOverlap ==
    [][\A call \in BagToSet(pending) :
          (/\ call.op = "createEvent"
           /\ Settles(call)
           /\ WellFormed(call.newEvent))
              => /\ last'.settled = "rejected"
                     <=> \E i \in DOMAIN events :
                            /\ events[i].date = call.newEvent.date
                            /\ MinuteOfDay(call.newEvent.startTime)
                                  < MinuteOfDay(events[i].endTime)
                            /\ MinuteOfDay(events[i].startTime)
                                  < MinuteOfDay(call.newEvent.endTime)
                 /\ last'.settled = "resolved" => Len(events') = Len(events) + 1]_vars

\* A candidate was accepted that starts exactly when a stored event on its
\* date ends.
C20_Witness ==
    /\ last.settled = "resolved"
    /\ Len(events) >= 2
    /\ events[Len(events)] = last.value
    /\ \E i \in 1..(Len(events) - 1) :
          /\ events[i].date = last.value.date
          /\ events[i].endTime = last.value.startTime

-----------------------------------------------------------------------------
(* Callers that pass createEvent strings the form would not let through:   *)
(* apiService checks nothing but newEventStart >= newEventEnd on the Date  *)
(* objects it builds.                                                      *)

\* The date strings of a candidate: a calendar date, or '' (no date).
AnyDates == {Jan15, EmptyString}

AnyStringNewEvents ==
    {NewEvent(date, span, 1) : date \in AnyDates, span \in Spans}

AnyStringCreateCalls ==
    {[op |-> "createEvent", newEvent |-> n] : n \in AnyStringNewEvents}

CallCreateEventAnyStrings == \E call \in AnyStringCreateCalls : Invoke(call)

RunCreateEventAnyStrings ==
    \E call \in AnyStringCreateCalls, id \in Ids, setItemOk \in BOOLEAN :
        Settle(call, createEvent(events, storage, call.newEvent, id, setItemOk))

AnyStringsNext ==
    \/ CallCreateEventAnyStrings
    \/ CallUpdateEvent
    \/ RunCreateEventAnyStrings
    \/ RunUpdateEvent

SpecAnyStrings == Init /\ [][AnyStringsNext]_vars

(* C18: every stored event has its startTime strictly before its endTime,  *)
(* whatever strings the accepted candidates carried and after any          *)
(* updateEvent.  A candidate whose date is no date yields Invalid Date     *)
(* objects, start >= end is then false and the reversed span is stored:    *)
(* the statement is violated.                                              *)
C18_StoredStartBeforeEnd ==
    \A i \in DOMAIN events : WellFormed(events[i])

-----------------------------------------------------------------------------
(* Candidates for the same date and span that differ in one other field.   *)

\* The candidate n and the candidates that differ from it in fields that
\* are neither date, startTime nor endTime: in the place, in the capacity,
\* in the texts.
Variants(n) ==
    {n,
     Spread(n, [location |-> "Lab"]),
     Spread(n, [capacity |-> 5]),
     Spread(n, [name |-> "Quiz", organizer |-> "Dean", description |-> "Open"])}

VariedNewEvents == UNION {Variants(NewEvent(Jan15, span, 1)) : span \in Spans}

VariedCreateCalls ==
    {[op |-> "createEvent", newEvent |-> n] : n \in VariedNewEvents}

CallCreateEventVaried == \E call \in VariedCreateCalls : Invoke(call)

RunCreateEventVaried ==
    \E call \in VariedCreateCalls, id \in Ids, setItemOk \in BOOLEAN :
        Settle(call, createEvent(events, storage, call.newEvent, id, setItemOk))

VariedNext ==
    \/ CallCreateEventVaried
    \/ RunCreateEventVaried

SpecVaried == Init /\ [][VariedNext]_vars

\* Two candidates for the same date and the same span.
SameSlot(a, b) ==
    /\ a.date = b.date
    /\ a.startTime = b.startTime
    /\ a.endTime = b.endTime

-----------------------------------------------------------------------------
(* Start-up on a slot no earlier session of the page wrote as it should:   *)
(* nothing stored, storage not accessible, a text that is no JSON, a JSON  *)
(* text that is no array.                                                  *)

StartupSlots == {NoItem, Unreadable, MalformedText, ObjectText}

StartupInit ==
    /\ storage \in StartupSlots
    /\ events = loadEventsFromLocalStorage(storage)
    /\ pending = EmptyBag
    /\ last = NoOutcome
    /\ settled = EmptyBag
    /\ calendar = Unmounted
    /\ app = NotStarted

SpecStartup == StartupInit /\ [][Next]_vars

(* C13: when the slot is empty, unreadable or malformed, the ledger starts *)
(* from the empty array: as long as no call has settled, `events` is [].   *)
(* For the text '{}' JSON.parse succeeds and `events` is the object it     *)
(* returns: the statement is violated, and the calls that follow reject    *)
(* with a TypeError.                                                       *)
C13_StartsEmpty ==
    settled = EmptyBag => events = <<>>

-----------------------------------------------------------------------------
(* Reloading the page: the module is evaluated again and `events` is what  *)
(* loadEventsFromLocalStorage reads from the slot; the timers of the calls *)
(* in flight are gone with the old page.                                   *)

Reload ==
    /\ events' = loadEventsFromLocalStorage(storage)
    /\ pending' = EmptyBag
    /\ last' = NoOutcome
    /\ UNCHANGED <<storage, settled, calendar, app>>

ReloadNext ==
    \/ Next
    \/ Reload

SpecReload == Init /\ [][ReloadNext]_vars

(* C12: round trip.  When the call that settled last resolved, its body    *)
(* ended with saveEventsToLocalStorage(events); loading the slot right     *)
(* after yields the same events in the same order, field for field.  When  *)
(* setItem threw inside the save, the slot holds an older array and the    *)
(* load yields that one: the statement is violated.                        *)
C12_SaveThenLoad ==
    [][(/\ last.settled = "resolved"
        /\ pending' = EmptyBag
        /\ last' = NoOutcome)
          => events' = events]_vars

-----------------------------------------------------------------------------
(* apiService.fetchEvents and what its caller does with the result.        *)
(*                                                                         *)
(* `events` is an array of references to Event objects.  Here the objects  *)
(* are told apart by an address: the object `events` holds at index a has  *)
(* address a, Heap maps the addresses to the objects and an array of       *)
(* objects is an array of addresses.                                       *)

\* The objects of `events` by address.
Heap(evs) == [a \in DOMAIN evs |-> evs[a]]

\* `events` as the array of the addresses of its objects.
Addresses(evs) == [i \in DOMAIN evs |-> i]

\* return [...events]: a new array that holds the same references.
fetchEvents(evs) == [i \in DOMAIN Addresses(evs) |-> Addresses(evs)[i]]

\* What the caller does with the array in the continuation of its await,
\* which runs before any other timer fires.
CallerEdits == {"nothing", "reverse", "pop", "push", "setCapacity"}

\* array.reverse()
Reverse(array) == [i \in DOMAIN array |-> array[Len(array) + 1 - i]]

\* The continuation on the array it was given and the heap:
\* <<array', heap'>>.  push adds a reference to an object of `events` a
\* second time; setCapacity is `array[0].capacity = 5`.
CallerEdit(edit, array, heap) ==
    IF edit = "nothing" \/ array = <<>> THEN <<array, heap>>
    ELSE IF edit = "reverse" THEN <<Reverse(array), heap>>
    ELSE IF edit = "pop" THEN <<SubSeq(array, 1, Len(array) - 1), heap>>
    ELSE IF edit = "push" THEN <<Append(array, array[1]), heap>>
    ELSE <<array, [heap EXCEPT ![array[1]] = Spread(@, [capacity |-> 5])]>>

\* The objects an array of addresses refers to.
Deref(array, heap) == [i \in DOMAIN array |-> heap[array[i]]]

\* An array as the value of an outcome.  Outcomes are compared with each
\* other; the wrapping tells an array from an event and from undefined.
ReturnedArray(array) == [array |-> array]

FetchCalls == {[op |-> "fetchEvents", then |-> edit] : edit \in CallerEdits}

CallFetchEvents == \E call \in FetchCalls : Invoke(call)

\* The timer fires, fetchEvents resolves with the copy and the caller's
\* continuation runs: `events` is afterwards what its own array of
\* references finds in the heap.
RunFetchEvents ==
    \E call \in FetchCalls :
        LET after == CallerEdit(call.then, fetchEvents(events), Heap(events))
        IN  Settle(call, <<Deref(Addresses(events), after[2]), storage,
                           Resolved(ReturnedArray(Deref(after[1], after[2])))>>)

FetchNext ==
    \/ CallFetchEvents
    \/ CallRegisterForEvent
    \/ RunFetchEvents
    \/ RunRegisterForEvent

SpecFetch == Init /\ [][FetchNext]_vars

(* C14: the value fetchEvents returns is a snapshot: whatever the caller   *)
(* does with it, to the array or to a field of an event in it, `events`    *)
(* stays as it was.  The copy is shallow, a write to a field of a returned *)
(* event is a write to the stored event: the statement is violated.        *)
C14_FetchReturnsSnapshot ==
    [][\A call \in BagToSet(pending) :
          (/\ call.op = "fetchEvents"
           /\ Settles(call))
              => events' = events]_vars

-----------------------------------------------------------------------------
(* components/Calendar.tsx: the Date objects of the grid.                  *)
(*                                                                         *)
(* A Date built from local year, month and day is the record of what       *)
(* getFullYear(), getMonth() (0 for January), getDate() and getDay() (0    *)
(* for Sunday) return for it.                                              *)

\* The calendar date <<y, m, d>> (m from 1) of the day `days` days after
\* 1970-01-01: the inverse of DaysFromCivil.
CivilFromDays(days) ==
    LET z   == days + 719468
        era == z \div 146097
        doe == z - era * 146097
        yoe == (doe - doe \div 1460 + doe \div 36524 - doe \div 146096) \div 365
        doy == doe - (365 * yoe + yoe \div 4 - yoe \div 100)
        mp  == (5 * doy + 2) \div 153
        d   == doy - (153 * mp + 2) \div 5 + 1
        m   == IF mp < 10 THEN mp + 3 ELSE mp - 9
        y   == yoe + era * 400 + (IF m <= 2 THEN 1 ELSE 0)
    IN  <<y, m, d>>

\* new Date(year, month, day): a month outside 0..11 and a day outside the
\* month carry over into the neighbouring years and months.
NewDate(year, month, day) ==
    LET days  == DaysFromCivil(year + (month \div 12), (month % 12) + 1, 1) + day - 1
        civil == CivilFromDays(days)
    IN  [year  |-> civil[1],
         month |-> civil[2] - 1,
         date  |-> civil[3],
         day   |-> (days + 4) % 7]

\* a.getDate() === b.getDate() && a.getMonth() === b.getMonth() &&
\* a.getFullYear() === b.getFullYear()
SameDay(a, b) ==
    /\ a.date = b.date
    /\ a.month = b.month
    /\ a.year = b.year

\* daysInMonth without the `+ 1`: the length of the month before.
daysInMonth_MonthBefore(year, month) == NewDate(year, month, 0).date

\* new Date(year, month + 1, 0).getDate()
daysInMonth(year, month) == NewDate(year, month + 1, 0).date

\* firstDayOfMonth taking the weekday of the day before the 1st.
firstDayOfMonth_DayBefore(year, month) == NewDate(year, month, 0).day

\* new Date(year, month, 1).getDay()
firstDayOfMonth(year, month) == NewDate(year, month, 1).day

\* The cells of the grid: 6 rows of 7 days.
GridCells == 42

\* { date, isCurrentMonth, isToday, events: [] }
CalendarDay(date, isCurrentMonth, isToday) ==
    [date |-> date, isCurrentMonth |-> isCurrentMonth, isToday |-> isToday,
     events |-> <<>>]

\* The useMemo callback: the days of the month before that complete the
\* first week (weeks start on Monday), the days of the month, and the days
\* of the month after up to 42 cells.  `today` is new Date() at that moment.
calendarDays(currentYear, currentMonth, today) ==
    LET totalDaysInCurrentMonth == daysInMonth(currentYear, currentMonth)
        firstDay == firstDayOfMonth(currentYear, currentMonth)
        prevMonthDaysToShow == IF firstDay = 0 THEN 6 ELSE firstDay - 1
        leading ==
            [k \in 1..prevMonthDaysToShow |->
                CalendarDay(NewDate(currentYear, currentMonth,
                                    (k - 1) - prevMonthDaysToShow + 1),
                            FALSE, FALSE)]
        current ==
            [i \in 1..totalDaysInCurrentMonth |->
                CalendarDay(NewDate(currentYear, currentMonth, i), TRUE,
                            SameDay(NewDate(currentYear, currentMonth, i), today))]
        totalCells == prevMonthDaysToShow + totalDaysInCurrentMonth
        remainingCells == GridCells - totalCells
        trailing ==
            [i \in 1..remainingCells |->
                CalendarDay(NewDate(currentYear, currentMonth + 1, i),
                            FALSE, FALSE)]
    IN  leading \o current \o trailing

-----------------------------------------------------------------------------
(* components/Calendar.tsx: the effect that puts the events into the grid. *)

\* a.localeCompare(b) for two 'HH:MM' strings: the characters are compared
\* from the left; the ':' stands at the same place in both and is left out.
Characters(time) ==
    <<time[1] \div 10, time[1] % 10, time[2] \div 10, time[2] % 10>>

localeCompare(a, b) ==
    LET differ == {k \in 1..4 : Characters(a)[k] # Characters(b)[k]}
        first  == CHOOSE k \in differ : \A l \in differ : k <= l
    IN  IF differ = {} THEN 0
        ELSE IF Characters(a)[first] < Characters(b)[first] THEN 0 - 1 ELSE 1

\* The sort call left out: the events stay in the order of the list.
sort_Unsorted(array) == array

\* array.sort((a, b) => a.startTime.localeCompare(b.startTime)): a stable
\* sort, computed by insertion.
RECURSIVE sort(_)
sort(array) ==
    IF Len(array) <= 1 THEN array
    ELSE LET rest == sort(SubSeq(array, 1, Len(array) - 1))
             x    == array[Len(array)]
             k    == Cardinality({i \in DOMAIN rest :
                        localeCompare(rest[i].startTime, x.startTime) <= 0})
         IN  SubSeq(rest, 1, k) \o <<x>> \o SubSeq(rest, k + 1, Len(rest))

\* The offset of local time from UTC, in minutes: the browser's time zone,
\* one behind UTC and one ahead of it.
UtcOffsets == {0 - 300, 60}

\* new Date(event.date), read with the local getters: a date-only string is
\* UTC midnight, which is still the day before in a zone behind UTC.
EventDate(date, utcOffset) ==
    NewDate(date[1], date[2] - 1, IF utcOffset < 0 THEN date[3] - 1 ELSE date[3])

\* updatedCalendarDays.find(...): the index of the first cell of the event's
\* day, 0 when there is none (an Invalid Date matches no cell).
TargetDay(days, event, utcOffset) ==
    LET eventDate == EventDate(event.date, utcOffset)
        matching  == {i \in DOMAIN days : SameDay(days[i].date, eventDate)}
    IN  IF ~ValidDateString(event.date) \/ matching = {} THEN 0
        ELSE CHOOSE i \in matching : \A j \in matching : i <= j

\* The array the effect builds: every cell with the events that found it as
\* their targetDay, in the order of the list and then sorted.
updatedCalendarDays(days, evs, utcOffset) ==
    LET targetDay == [k \in DOMAIN evs |-> TargetDay(days, evs[k], utcOffset)]
        pushed(i) == SelectSeq([k \in DOMAIN evs |-> k],
                               LAMBDA k : targetDay[k] = i)
    IN  [i \in DOMAIN days |->
            [days[i] EXCEPT !.events =
                sort([j \in DOMAIN pushed(i) |-> evs[pushed(i)[j]]])]]

\* What the effect passes to setSelectedDayEvents: the events of today's
\* cell when it has some, otherwise those of the first cell of the month.
selectedDayEvents(updated, today) ==
    LET todays  == {i \in DOMAIN updated :
                      updated[i].isCurrentMonth /\ SameDay(updated[i].date, today)}
        inMonth == {i \in DOMAIN updated : updated[i].isCurrentMonth}
        currentDayEvents ==
            IF todays = {} THEN <<>>
            ELSE updated[CHOOSE i \in todays : \A j \in todays : i <= j].events
    IN  IF Len(currentDayEvents) > 0 THEN currentDayEvents
        ELSE IF inMonth = {} THEN <<>>
        ELSE updated[CHOOSE i \in inMonth : \A j \in inMonth : i <= j].events

\* The component `rendered` is the one after a render for currentDate and
\* the effect of that render.  calendarDays is the memoized grid, the one
\* the component draws; updatedCalendarDays is the copy the effect fills
\* with the events, from which it takes selectedDayEvents.  `today` is what
\* new Date() gave the callback and the effect, `now` what it gives since.
Render(rendered, currentDate, evs, today, utcOffset) ==
    \E days \in {calendarDays(currentDate.year, currentDate.month, today)} :
        \E updated \in {updatedCalendarDays(days, evs, utcOffset)} :
            rendered =
                [mounted             |-> TRUE,
                 today               |-> today,
                 now                 |-> today,
                 utcOffset           |-> utcOffset,
                 currentDate         |-> currentDate,
                 calendarDays        |-> days,
                 updatedCalendarDays |-> updated,
                 selectedDayEvents   |-> selectedDayEvents(updated, today)]

-----------------------------------------------------------------------------
(* The Calendar on the screen, the user paging through the months.         *)

\* Months the user pages away from the month of today.
MaxMonthsAway == 9

\* Events of the list the calendar is given.
MaxShown == 3

\* new Date() when the component is rendered.
Todays == {NewDate(2026, 10, 3), NewDate(2024, 1, 29)}

Nov3 == <<2026, 11, 3>>
Dec1 == <<2026, 12, 1>>

T0900 == <<9, 0>>
T0930 == <<9, 30>>

\* Events of the ledger: three on one day that do not overlap, one on the
\* first day of the next month.
CalendarEvents ==
    {NewStoredEvent(NewEvent(Nov3, <<T1000, T1100>>, 1), "k3x9"),
     NewStoredEvent(NewEvent(Nov3, <<T0900, T0930>>, 1), "p7q2"),
     NewStoredEvent(NewEvent(Nov3, <<T1100, T1130>>, 1), "m5t1"),
     NewStoredEvent(NewEvent(Dec1, <<T1000, T1100>>, 1), "w8c4")}

\* The ledgers createEvent calls leave behind: up to MaxShown of these
\* events in any order of creation.
CalendarLedgers ==
    UNION {{ledger \in [1..n -> CalendarEvents] :
               \A i, j \in 1..n : ledger[i] = ledger[j] => i = j} :
           n \in 0..MaxShown}

\* The Calendar is rendered with the list fetchEvents returned.
CalendarInit ==
    /\ events \in CalendarLedgers
    /\ storage = JSONstringify(events)
    /\ pending = EmptyBag
    /\ last = NoOutcome
    /\ settled = EmptyBag
    /\ \E today \in Todays, utcOffset \in UtcOffsets :
          Render(calendar, today, Deref(fetchEvents(events), Heap(events)),
                 today, utcOffset)
    /\ app = NotStarted

\* The months between the month of a Date and the month of today.
MonthsAway(date, today) ==
    LET months == (date.year * 12 + date.month) - (today.year * 12 + today.month)
    IN  IF months < 0 THEN 0 - months ELSE months

\* setCurrentDate(date), the render that follows and its effect.  When the
\* year and the month stay the same, useMemo hands back the grid it has and
\* the effect, whose dependencies did not change, does not run.
setCurrentDate(date) ==
    /\ calendar.mounted
    /\ MonthsAway(date, calendar.now) <= MaxMonthsAway
    /\ IF /\ date.year = calendar.currentDate.year
          /\ date.month = calendar.currentDate.month
       THEN calendar' = [calendar EXCEPT !.currentDate = date]
       ELSE Render(calendar', date, Deref(fetchEvents(events), Heap(events)),
                   calendar.now, calendar.utcOffset)
    /\ UNCHANGED <<events, storage, pending, last, settled, app>>

goToPreviousMonth ==
    setCurrentDate(NewDate(calendar.currentDate.year,
                           calendar.currentDate.month - 1, 1))

goToNextMonth ==
    setCurrentDate(NewDate(calendar.currentDate.year,
                           calendar.currentDate.month + 1, 1))

goToToday == setCurrentDate(calendar.now)

CalendarNext ==
    \/ goToPreviousMonth
    \/ goToNextMonth
    \/ goToToday

SpecCalendar == CalendarInit /\ [][CalendarNext]_vars

(* C15: for every year and month shown, the grid has exactly 42 cells, and *)
(* the cells with isCurrentMonth = true are exactly the days 1..totalDays  *)
(* of that month, in order, totalDays being the length of the month in the *)
(* Gregorian calendar.                                                     *)
C15_GridOfTheMonth ==
    calendar.mounted =>
        LET year    == calendar.currentDate.year
            month   == calendar.currentDate.month
            current == SelectSeq(calendar.calendarDays,
                                 LAMBDA day : day.isCurrentMonth)
        IN  /\ Len(calendar.calendarDays) = 42
            /\ Len(current) = DaysInMonth(year, month + 1)
            /\ \A i \in DOMAIN current :
                  /\ current[i].date.year = year
                  /\ current[i].date.month = month
                  /\ current[i].date.date = i

\* August 2027 is shown: it starts on a Sunday, so its 31st day is the 37th
\* cell.
C15_Witness ==
    /\ calendar.mounted
    /\ calendar.currentDate.year = 2027
    /\ calendar.currentDate.month = 7
    /\ calendar.calendarDays[37].isCurrentMonth
    /\ calendar.calendarDays[37].date.date = 31

\* The events of a cell by ascending startTime.
Ascending(evs) ==
    \A i, j \in DOMAIN evs :
        i < j => MinuteOfDay(evs[i].startTime) <= MinuteOfDay(evs[j].startTime)

(* C16: in every cell of the grid the events are in ascending order of     *)
(* their startTime, whatever the order of the list of events: in the grid  *)
(* the effect fills and in the grid the component draws.                   *)
C16_CellEventsAscending ==
    calendar.mounted =>
        /\ \A i \in DOMAIN calendar.updatedCalendarDays :
              Ascending(calendar.updatedCalendarDays[i].events)
        /\ \A i \in DOMAIN calendar.calendarDays :
              Ascending(calendar.calendarDays[i].events)

\* A cell holds three events of a list that is not in ascending order.
C16_Witness ==
    /\ calendar.mounted
    /\ ~Ascending(events)
    /\ \E i \in DOMAIN calendar.updatedCalendarDays :
          Len(calendar.updatedCalendarDays[i].events) = 3

-----------------------------------------------------------------------------
(* The order of the checks of createEvent.                                 *)

(* C21: the span is checked before any clash comparison: a candidate whose *)
(* startTime is not before its endTime is rejected with the validation     *)
(* error and never with a clash error, also when the comparison of its     *)
(* times with those of a stored event would report an overlap.             *)
C21_ValidationBeforeClash ==
    [][\A call \in BagToSet(pending) :
          (/\ call.op = "createEvent"
           /\ Settles(call)
           /\ ~WellFormed(call.newEvent))
              => /\ last' = Rejected(ValidationError)
                 /\ last'.error.message # "Clash detected"]_vars

\* A candidate was rejected with the validation error, and a call is in
\* flight whose candidate has an empty span inside a stored event: its
\* timer can fire in this state.
C21_Witness ==
    /\ last = Rejected(ValidationError)
    /\ \E call \in BagToSet(pending), i \in DOMAIN events :
          /\ call.op = "createEvent"
          /\ ~WellFormed(call.newEvent)
          /\ SpansOverlap(call.newEvent, events[i])

(* C22: when a well-formed candidate overlaps several stored events, the   *)
(* clash error names the first of them in the order of the array: it       *)
(* carries the name, date and times of the overlapping event of lowest     *)
(* index.                                                                  *)
C22_ClashNamesFirstInStorageOrder ==
    [][\A call \in BagToSet(pending) :
          (/\ call.op = "createEvent"
           /\ Settles(call)
           /\ WellFormed(call.newEvent)
           /\ \E i \in DOMAIN events : SpansOverlap(call.newEvent, events[i]))
              => LET first ==
                       CHOOSE i \in DOMAIN events :
                          /\ SpansOverlap(call.newEvent, events[i])
                          /\ \A j \in 1..(i - 1) :
                                ~SpansOverlap(call.newEvent, events[j])
                 IN  /\ last'.settled = "rejected"
                     /\ last'.error.name = events[first].name
                     /\ last'.error.date = events[first].date
                     /\ last'.error.startTime = events[first].startTime
                     /\ last'.error.endTime = events[first].endTime]_vars

\* A clash was reported that names the first stored event, and every
\* candidate that overlaps the first overlaps the second, which has other
\* times, as well.
C22_Witness ==
    /\ last.settled = "rejected"
    /\ last.error.message = "Clash detected"
    /\ Len(events) >= 2
    /\ last.error.startTime = events[1].startTime
    /\ last.error.endTime = events[1].endTime
    /\ events[2].endTime # events[1].endTime
    /\ \A n \in NewEvents :
          (WellFormed(n) /\ SpansOverlap(n, events[1])) => SpansOverlap(n, events[2])

-----------------------------------------------------------------------------
(* What registerForEvent and updateEvent change.                           *)

(* C23: a registerForEvent(id) call that resolves raises the               *)
(* registeredParticipants of one event with that id by exactly 1 and       *)
(* changes nothing else: the other fields of that event, the other events, *)
(* the number and the order of the events stay as they were.               *)
C23_RegisterChangesOneCount ==
    [][\A call \in BagToSet(pending) :
          (/\ call.op = "registerForEvent"
           /\ Settles(call)
           /\ last'.settled = "resolved")
              => \E i \in DOMAIN events :
                    /\ events[i].id = call.id
                    /\ events' =
                          [events EXCEPT ![i].registeredParticipants = @ + 1]]_vars

\* A registration was accepted for the first of two stored events.
C23_Witness ==
    /\ last = Resolved(Undefined)
    /\ Len(events) >= 2
    /\ events[1].registeredParticipants = 1
    /\ events[2].registeredParticipants = 0
    /\ \E entry \in BagToSet(settled) :
          /\ entry.op = "registerForEvent"
          /\ entry.result = "resolved"
          /\ entry.id = events[1].id
          /\ entry.id # events[2].id

(* C24: updateEvent with an id no stored event has rejects with 'Event not *)
(* found.' and changes nothing; with the id of a stored event it replaces  *)
(* exactly the supplied fields of that event, keeps its other fields and   *)
(* the other events, resolves with the merged event, runs no check of the  *)
(* span or of overlaps, and the slot holds the new array.  When setItem    *)
(* throws, the slot keeps the old array: the statement is violated.        *)
C24_UpdateMergesAndPersists ==
    [][\A call \in BagToSet(pending) :
          (/\ call.op = "updateEvent"
           /\ Settles(call))
              => IF \A i \in DOMAIN events : events[i].id # call.id
                 THEN /\ last' = Rejected(NotFoundError)
                      /\ events' = events
                      /\ storage' = storage
                 ELSE \E i \in DOMAIN events :
                         /\ events[i].id = call.id
                         /\ DOMAIN events' = DOMAIN events
                         /\ \A j \in DOMAIN events : j # i => events'[j] = events[j]
                         /\ DOMAIN events'[i] = DOMAIN events[i]
                         /\ \A f \in DOMAIN events[i] :
                               events'[i][f] = IF f \in DOMAIN call.updates
                                               THEN call.updates[f]
                                               ELSE events[i][f]
                         /\ last' = Resolved(events'[i])
                         /\ storage' = JSONstringify(events')]_vars

-----------------------------------------------------------------------------
(* The dates of the grid.                                                  *)

\* The day number of the date of a cell, and its weekday (0 is Sunday).
DayNumber(date) == DaysFromCivil(date.year, date.month + 1, date.date)

Weekday(date) == (DayNumber(date) + 4) % 7

(* C28: the 42 cells of the grid are 42 consecutive calendar dates, each   *)
(* the day after the one before, so no date is repeated; the first cell is *)
(* a Monday; the cells before the 1st of the month shown are 6 when the    *)
(* 1st is a Sunday and the weekday of the 1st minus 1 otherwise.           *)
C28_ConsecutiveDatesFromMonday ==
    calendar.mounted =>
        LET days    == calendar.calendarDays
            first   == [year  |-> calendar.currentDate.year,
                        month |-> calendar.currentDate.month,
                        date  |-> 1]
            leading == {i \in DOMAIN days :
                          DayNumber(days[i].date) < DayNumber(first)}
        IN  /\ Len(days) = 42
            /\ \A i \in 1..41 :
                  DayNumber(days[i + 1].date) = DayNumber(days[i].date) + 1
            /\ \A i, j \in DOMAIN days :
                  SameDay(days[i].date, days[j].date) => i = j
            /\ Weekday(days[1].date) = 1
            /\ Cardinality(leading) = IF Weekday(first) = 0 THEN 6
                                      ELSE Weekday(first) - 1
            /\ \A i \in leading : ~days[i].isCurrentMonth

\* August 2027, which starts on a Sunday: six cells of July, from Monday
\* the 26th, stand before the 1st.
C28_Witness ==
    /\ calendar.mounted
    /\ calendar.currentDate.year = 2027
    /\ calendar.currentDate.month = 7
    /\ calendar.calendarDays[1].date.month = 6
    /\ calendar.calendarDays[1].date.date = 26
    /\ ~calendar.calendarDays[6].isCurrentMonth
    /\ calendar.calendarDays[7].date.date = 1

-----------------------------------------------------------------------------
(* The events in the cells.                                                *)

\* The date of a cell is the calendar date an event's date string names.
CellOfDate(day, date) ==
    /\ day.date.year = date[1]
    /\ day.date.month + 1 = date[2]
    /\ day.date.date = date[3]

(* C25: every event of the list is in the cell of the grid whose calendar  *)
(* date is the event's date, be it a cell of the month shown or a filler   *)
(* cell, and in no other cell; an event whose date is none of the 42 dates *)
(* is in no cell.  In a time zone behind UTC the effect puts the event in  *)
(* the cell of the day before: the statement is violated.                  *)
C25_EventsInTheCellOfTheirDate ==
    calendar.mounted =>
        \A k \in DOMAIN events, i \in DOMAIN calendar.updatedCalendarDays :
            LET day == calendar.updatedCalendarDays[i]
            IN  (\E j \in DOMAIN day.events : day.events[j] = events[k])
                    <=> CellOfDate(day, events[k].date)

-----------------------------------------------------------------------------
(* The Calendar on the screen while the days pass.                         *)

\* Midnights that pass while the Calendar is on the screen.
MaxDaysOn == 2

\* new Date() when the component is rendered: the last day of a month.
ClockTodays == {NewDate(2026, 10, 30)}

\* The Calendar is rendered with a list of at most one event.
ClockInit ==
    /\ events \in {ledger \in CalendarLedgers : Len(ledger) <= 1}
    /\ storage = JSONstringify(events)
    /\ pending = EmptyBag
    /\ last = NoOutcome
    /\ settled = EmptyBag
    /\ \E today \in ClockTodays, utcOffset \in UtcOffsets :
          Render(calendar, today, Deref(fetchEvents(events), Heap(events)),
                 today, utcOffset)
    /\ app = NotStarted

\* Midnight passes: new Date() is the next day from now on.  No state of
\* the component changes, so nothing is rendered.
Tick ==
    /\ calendar.mounted
    /\ \E start \in ClockTodays :
          DayNumber(calendar.now) - DayNumber(start) \in 0..(MaxDaysOn - 1)
    /\ calendar' = [calendar EXCEPT
                       !.now = NewDate(@.year, @.month, @.date + 1)]
    /\ UNCHANGED <<events, storage, pending, last, settled, app>>

ClockNext ==
    \/ goToPreviousMonth
    \/ goToNextMonth
    \/ goToToday
    \/ Tick

SpecClock == ClockInit /\ [][ClockNext]_vars

(* C26: for every cell of the grid, isToday is true iff the date of the    *)
(* cell is the current date, for every month shown and at any later time   *)
(* while that month stays on the screen.  The grid is built once per month *)
(* shown, so after midnight isToday still marks the day before, and a      *)
(* filler cell is never marked: the statement is violated.                 *)
C26_IsTodayIffCurrentDate ==
    calendar.mounted =>
        \A i \in DOMAIN calendar.calendarDays :
            calendar.calendarDays[i].isToday
                <=> SameDay(calendar.calendarDays[i].date, calendar.now)

(* C27: whenever the grid is built, the day selected by default is the     *)
(* cell of today if today is in the month shown and the first cell of that *)
(* month otherwise, whether or not that day has events: the events shown   *)
(* as selected are those of that cell.  When today has no events the       *)
(* effect takes the events of the first day of the month instead: the      *)
(* statement is violated.                                                  *)
C27_DefaultSelectedDay ==
    calendar.mounted =>
        LET days    == calendar.updatedCalendarDays
            inMonth == {i \in DOMAIN days : days[i].isCurrentMonth}
            todays  == {i \in inMonth : SameDay(days[i].date, calendar.today)}
            default == IF todays # {} THEN CHOOSE i \in todays : TRUE
                       ELSE CHOOSE i \in inMonth : \A j \in inMonth : i <= j
        IN  calendar.selectedDayEvents = days[default].events

-----------------------------------------------------------------------------
(* Reads in flight together with writes.                                   *)

\* getEventDetails that looks the event up in what the slot holds.
getEventDetails_FromStorage(evs, slot, id) ==
    LET stored     == loadEventsFromLocalStorage(slot)
        eventIndex == findIndex(stored, id)
    IN  <<evs, slot,
          Resolved(IF eventIndex = 0 THEN Undefined ELSE stored[eventIndex])>>

\* apiService.getEventDetails, after the await: events.find(...) gives the
\* first event with the id, or undefined.
getEventDetails(evs, slot, id) ==
    LET eventIndex == findIndex(evs, id)
    IN  IF ~IsArray(evs)
        THEN <<evs, slot, Rejected(TypeError)>>
        ELSE <<evs, slot,
               Resolved(IF eventIndex = 0 THEN Undefined ELSE evs[eventIndex])>>

\* The reads the page makes; the caller of fetchEvents only looks at the
\* array it gets.
GetCalls == {[op |-> "getEventDetails", id |-> id] : id \in Ids}

ConcurrentReads == {[op |-> "fetchEvents", then |-> "nothing"]} \cup GetCalls

\* The writes made while the reads are in flight: a new event after the
\* stored one, a registration, and an update of two fields.
ConcurrentWrites ==
    {[op |-> "createEvent", newEvent |-> NewEvent(Jan15, <<T1100, T1130>>, 1)],
     [op |-> "registerForEvent", id |-> "k3x9"],
     [op |-> "updateEvent", id |-> "k3x9", updates |-> [capacity |-> 0]]}

CallRead == \E call \in ConcurrentReads : Invoke(call)

CallWrite == \E call \in ConcurrentWrites : Invoke(call)

RunGetEventDetails ==
    \E call \in GetCalls :
        Settle(call, getEventDetails(events, storage, call.id))

ReadsNext ==
    \/ CallRead
    \/ CallWrite
    \/ RunFetchEvents
    \/ RunGetEventDetails
    \/ RunCreateEvent
    \/ RunRegisterForEvent
    \/ RunUpdateEvent

SpecReads == Init /\ [][ReadsNext]_vars

\* The timers in flight fire in the end: while calls of an operation are in
\* flight, one of them settles.
SpecReadsFair ==
    /\ SpecReads
    /\ WF_vars(RunFetchEvents)
    /\ WF_vars(RunGetEventDetails)
    /\ WF_vars(RunCreateEvent)
    /\ WF_vars(RunRegisterForEvent)
    /\ WF_vars(RunUpdateEvent)

(* C29: a fetchEvents or getEventDetails call in flight together with      *)
(* createEvent, registerForEvent or updateEvent calls resolves with the    *)
(* collection as it is when the read's own timer fires: the array, or the  *)
(* first event with the id, as left by every write that settled before     *)
(* and untouched by every write still in flight.  The read changes neither *)
(* the array nor the slot.                                                 *)
C29_ReadsSeeWholeWrites ==
    [][\A call \in BagToSet(pending) :
          (/\ call \in ConcurrentReads
           /\ Settles(call))
              => /\ events' = events
                 /\ storage' = storage
                 /\ last' = Resolved(
                       IF call.op = "fetchEvents" THEN ReturnedArray(events)
                       ELSE IF \A i \in DOMAIN events : events[i].id # call.id
                            THEN Undefined
                            ELSE events[CHOOSE i \in DOMAIN events :
                                    /\ events[i].id = call.id
                                    /\ \A j \in 1..(i - 1) :
                                          events[j].id # call.id])]_vars

\* getEventDetails('k3x9') and registerForEvent('k3x9') were the two calls:
\* the read settled after the write and returned the event with the place
\* taken, while the slot still holds the array from before the write.
C29_Witness ==
    /\ pending = EmptyBag
    /\ BagToSet(settled) =
          {[op |-> "getEventDetails", id |-> "k3x9", result |-> "resolved"],
           [op |-> "registerForEvent", id |-> "k3x9", result |-> "resolved"]}
    /\ Len(events) = 1
    /\ events[1].registeredParticipants = 1
    /\ last = Resolved(events[1])
    /\ storage = JSONstringify(SavedOne)

(* C30: every fetchEvents, getEventDetails, createEvent, registerForEvent  *)
(* and updateEvent call in flight settles in the end, resolved or          *)
(* rejected, if the timers in flight fire in the end; the step that        *)
(* settles a call in flight is possible whatever else is in flight.        *)
C30_EveryCallSettles ==
    /\ \A call \in ConcurrentReads \cup ConcurrentWrites :
          BagIn(call, pending) ~> ~BagIn(call, pending)
    /\ [](\A call \in BagToSet(pending) : ENABLED (ReadsNext /\ Settles(call)))

\* A read and a write were in flight and both have settled, the read
\* resolved and the write rejected.
C30_Witness ==
    /\ pending = EmptyBag
    /\ BagToSet(settled) =
          {[op |-> "fetchEvents", id |-> "", result |-> "resolved"],
           [op |-> "registerForEvent", id |-> "k3x9",
            result |-> "Event is full."]}

-----------------------------------------------------------------------------
(* App.tsx, the dashboards, EventForm and EventCard: the page.  The page   *)
(* calls apiService from its handlers; what follows an await in a handler  *)
(* and in the handlers that await it runs when the call settles, before    *)
(* any other timer fires.  The page writes into no Event object, so its    *)
(* list holds the events by value.                                         *)

\* null, where the page holds an id or a message.
null == ""

\* Calls to apiService the user starts in one behaviour.
MaxClicks == 3

\* Changes of the view in one behaviour.
MaxSwitches == 2

\* new Date() while the page is open, and the zone of the browser.
AppToday == NewDate(2026, 10, 3)

AppUtcOffset == CHOOSE utcOffset \in UtcOffsets : utcOffset > 0

\* The call of the mount effect (App.tsx:96).
FetchAtMount == [op |-> "fetchEvents", from |-> 0]

\* value.trim() of the strings typed: nothing, a blank, a word.
trim(value) == IF value = " " THEN "" ELSE value

\* useState<NewEvent>({ name: '', ..., capacity: 0, organizer: '' })
InitialFormData ==
    [name |-> "", description |-> "", date |-> EmptyString,
     startTime |-> EmptyString, endTime |-> EmptyString, location |-> "",
     capacity |-> 0, organizer |-> ""]

\* errors[key] = message; formErrors is the set of its entries.
FormError(key, message) == [key |-> key, message |-> message]

Required(missing, key, message) ==
    IF missing THEN {FormError(key, message)} ELSE {}

\* The errors validateForm collects and passes to setFormErrors; the form is
\* valid when there are none.
validateForm(formData) ==
    Required(trim(formData.name) = "", "name", "Event name is required.")
    \cup Required(trim(formData.description) = "", "description",
                  "Description is required.")
    \cup Required(formData.date = EmptyString, "date", "Date is required.")
    \cup Required(formData.startTime = EmptyString, "startTime",
                  "Start time is required.")
    \cup Required(formData.endTime = EmptyString, "endTime",
                  "End time is required.")
    \cup Required(trim(formData.location) = "", "location",
                  "Location is required.")
    \cup Required(formData.capacity <= 0, "capacity",
                  "Capacity must be a positive number.")
    \cup Required(trim(formData.organizer) = "", "organizer",
                  "Organizer name is required.")
    \cup Required(/\ formData.date # EmptyString
                  /\ formData.startTime # EmptyString
                  /\ formData.endTime # EmptyString
                  /\ DateGe(getDateTime(formData.date, formData.startTime),
                            getDateTime(formData.date, formData.endTime)),
                  "endTime", "End time must be after start time.")

\* Modal returns null while it is closed: there is no EventForm.
Closed == [mounted |-> FALSE]

\* EventForm after its first render and the effect that validates.
EventForm(formData) ==
    [mounted            |-> TRUE,
     formData           |-> formData,
     formErrors         |-> validateForm(formData),
     generatingProposal |-> FALSE,
     proposalDetails    |-> ""]

\* The page after the first render and the mount effect of App, once
\* checkApiKey has set apiKeySelected: the fetch is in flight.  aistudio
\* says whether window.aistudio exists, envKey whether process.env.API_KEY
\* is set.  mount counts the dashboards mounted so far; alerts are those of
\* the registration that settled last; timers are the calls in flight in
\* the order of their setTimeout.
Page(aistudio, envKey, apiKeySelected) ==
    [started             |-> TRUE,
     aistudio            |-> aistudio,
     envKey              |-> envKey,
     view                |-> "participant",
     events              |-> <<>>,
     loading             |-> TRUE,
     error               |-> null,
     apiKeySelected      |-> apiKeySelected,
     mount               |-> 1,
     isFormModalOpen     |-> FALSE,
     formSubmissionError |-> null,
     isSubmitting        |-> FALSE,
     form                |-> Closed,
     registeringEventId  |-> null,
     alerts              |-> <<>>,
     timers              |-> <<FetchAtMount>>,
     clicks              |-> 0]

\* What simulateDelay's timer firing does to the repository for a call of
\* the page: as Settle, the page aside.
Completes(call, result) ==
    /\ BagIn(call, pending)
    /\ pending' = pending (-) SetToBag({call})
    /\ events' = result[1]
    /\ storage' = result[2]
    /\ last' = result[3]
    /\ settled' = settled (+) SetToBag({Entry(call, result[3])})

\* A handler calls apiService: the call runs up to its await.
Starts(call) ==
    /\ app.clicks < MaxClicks
    /\ pending' = pending (+) SetToBag({call})
    /\ UNCHANGED <<events, storage, last, settled, calendar>>

\* The Calendar of the dashboard after a render with a new list and its
\* effect.  The user pages through no months here.
Shows(list) == Render(calendar', AppToday, list, AppToday, AppUtcOffset)

\* Whether a dashboard is on the screen: the organizer's is replaced by the
\* request for an API key while none is selected (App.tsx:192-211).
DashboardRendered ==
    app.started /\ (app.view = "participant" \/ app.apiKeySelected)

\* The events that have an EventCard on the screen (Calendar.tsx:333).
EventCards ==
    IF DashboardRendered
    THEN {calendar.selectedDayEvents[i] : i \in DOMAIN calendar.selectedDayEvents}
    ELSE {}

isFull(event) == event.registeredParticipants >= event.capacity

\* The register button of the card of an event: in the participant view
\* only; Button is disabled by `disabled` and by `loading`.
RegisterEnabled(event) ==
    /\ app.view = "participant"
    /\ event \in EventCards
    /\ ~(isFull(event) \/ app.registeringEventId = event.id)

\* setView(v) by the buttons of the header: the dashboard of the other view
\* is unmounted with its state, a new one is mounted.
setView(view) ==
    /\ app.started
    /\ app.view # view
    /\ app.mount <= MaxSwitches
    /\ app' = [app EXCEPT !.view = view,
                          !.mount = @ + 1,
                          !.isFormModalOpen = FALSE,
                          !.formSubmissionError = null,
                          !.isSubmitting = FALSE,
                          !.form = Closed,
                          !.registeringEventId = null]
    /\ UNCHANGED <<events, storage, pending, last, settled, calendar>>

\* The timer of fetchEvents fires: it returns [...events] and App goes on
\* with setEvents(fetchedEvents), setLoading(false).
FetchSettles ==
    /\ app.started
    /\ app.timers # <<>>
    /\ Head(app.timers).op = "fetchEvents"
    /\ \E fetchedEvents \in {Deref(fetchEvents(events), Heap(events))} :
          /\ Completes(Head(app.timers),
                       <<events, storage, Resolved(ReturnedArray(fetchedEvents))>>)
          /\ app' = [app EXCEPT !.events = fetchedEvents,
                                !.loading = FALSE,
                                !.timers = Tail(@)]
          /\ Shows(fetchedEvents)

\* The click on the register button of a card: Calendar.handleRegister,
\* ParticipantDashboard.handleRegister and App.handleRegisterEvent up to the
\* await in apiService.registerForEvent.
handleRegisterClick(eventId) ==
    /\ \E event \in EventCards : event.id = eventId /\ RegisterEnabled(event)
    /\ \E call \in {[op |-> "registerForEvent", id |-> eventId, from |-> app.mount]} :
          /\ Starts(call)
          /\ app' = [app EXCEPT !.registeringEventId = eventId,
                                !.error = null,
                                !.timers = Append(@, call),
                                !.clicks = @ + 1]

\* alert(text) after the repository reported `reported` for the call.
Alert(text, reported) == [text |-> text, after |-> reported]

SuccessAlert == "Successfully registered for the event!"
FailureAlert == "Registration failed"

\* prev.map(event => event.id === eventId ? { ...event,
\*     registeredParticipants: event.registeredParticipants + 1 } : event)
Registered(prev, eventId) ==
    [i \in DOMAIN prev |->
        IF prev[i].id = eventId
        THEN Spread(prev[i], [registeredParticipants |->
                                prev[i].registeredParticipants + 1])
        ELSE prev[i]]

\* The alerts of the two handlers that awaited the call.
\* ParticipantDashboard.handleRegister alerts the success or, in its catch,
\* the failure, and returns; Calendar.handleRegister awaited that handler,
\* which did not throw, and alerts the success.
RegisterAlerts(outcome) ==
    <<IF outcome.settled = "resolved"
      THEN Alert(SuccessAlert, Summary(outcome))
      ELSE Alert(FailureAlert, Summary(outcome)),
      Alert(SuccessAlert, Summary(outcome))>>

\* The timer of a registerForEvent of the page fires and the handlers go
\* on: App with setEvents or, in its catch, setError and throw; the
\* dashboard with its alert and, finally, setRegisteringEventId(null),
\* which does nothing once that dashboard is unmounted; Calendar with its
\* alert.
RegistrationSettles ==
    /\ app.started
    /\ app.timers # <<>>
    /\ Head(app.timers).op = "registerForEvent"
    /\ \E call \in {Head(app.timers)}, setItemOk \in BOOLEAN :
          \E result \in {registerForEvent(events, storage, call.id, setItemOk)} :
             /\ Completes(call, result)
             /\ app' = [app EXCEPT
                   !.events = IF result[3].settled = "resolved"
                              THEN Registered(@, call.id) ELSE @,
                   !.error = IF result[3].settled = "resolved"
                             THEN @ ELSE result[3].error.message,
                   !.registeringEventId = IF call.from = app.mount
                                          THEN null ELSE @,
                   !.alerts = RegisterAlerts(result[3]),
                   !.timers = Tail(@)]
             /\ IF result[3].settled = "resolved"
                THEN Shows(Registered(app.events, call.id))
                ELSE UNCHANGED calendar

\* The click on Create New Event (OrganizerDashboard.handleOpenForm).
handleOpenForm ==
    /\ DashboardRendered
    /\ app.view = "organizer"
    /\ ~app.isFormModalOpen
    /\ app' = [app EXCEPT !.isFormModalOpen = TRUE,
                          !.formSubmissionError = null,
                          !.form = EventForm(InitialFormData)]
    /\ UNCHANGED <<events, storage, pending, last, settled, calendar>>

\* Cancel, the cross or the backdrop of the Modal.
handleCloseForm ==
    /\ app.started
    /\ app.isFormModalOpen
    /\ app' = [app EXCEPT !.isFormModalOpen = FALSE,
                          !.formSubmissionError = null,
                          !.form = Closed]
    /\ UNCHANGED <<events, storage, pending, last, settled, calendar>>

\* The Create Event button: disabled={loading || Object.keys(formErrors)
\* .length > 0}, loading={loading}, where loading is isSubmitting.
SubmitEnabled ==
    /\ app.started
    /\ app.isFormModalOpen
    /\ ~app.isSubmitting
    /\ {entry.key : entry \in app.form.formErrors} = {}

\* The form is submitted: handleSubmit validates and, when the form is
\* valid, calls onSubmit(formData), which runs through
\* OrganizerDashboard.handleCreateEvent and App.handleCreateEvent up to the
\* await in apiService.createEvent.
handleSubmit ==
    /\ SubmitEnabled
    /\ IF validateForm(app.form.formData) = {}
       THEN \E call \in {[op |-> "createEvent",
                          newEvent |-> app.form.formData,
                          from |-> app.mount]} :
               /\ Starts(call)
               /\ app' = [app EXCEPT !.form.formErrors = {},
                                     !.isSubmitting = TRUE,
                                     !.formSubmissionError = null,
                                     !.error = null,
                                     !.timers = Append(@, call),
                                     !.clicks = @ + 1]
       ELSE /\ app' = [app EXCEPT !.form.formErrors =
                                      validateForm(app.form.formData)]
            /\ UNCHANGED <<events, storage, pending, last, settled, calendar>>

\* The timer of a createEvent of the page fires and the handlers go on: App
\* with setEvents(prev => [...prev, createdEvent]) or, in its catch,
\* setError and throw; the dashboard, while it is mounted, with
\* handleCloseForm or setFormSubmissionError and, finally,
\* setIsSubmitting(false).
CreationSettles ==
    /\ app.started
    /\ app.timers # <<>>
    /\ Head(app.timers).op = "createEvent"
    /\ \E call \in {Head(app.timers)}, id \in Ids, setItemOk \in BOOLEAN :
          \E result \in {createEvent(events, storage, call.newEvent, id, setItemOk)} :
             \E created \in {result[3].settled = "resolved"},
                mounted \in {call.from = app.mount} :
                /\ Completes(call, result)
                /\ app' = [app EXCEPT
                      !.events = IF created
                                 THEN Append(@, result[3].value) ELSE @,
                      !.error = IF created THEN @ ELSE result[3].error.message,
                      !.isFormModalOpen = IF mounted /\ created THEN FALSE ELSE @,
                      !.form = IF mounted /\ created THEN Closed ELSE @,
                      !.formSubmissionError =
                          IF ~mounted THEN @
                          ELSE IF created THEN null
                          ELSE result[3].error.message,
                      !.isSubmitting = IF mounted THEN FALSE ELSE @,
                      !.timers = Tail(@)]
                /\ IF created
                   THEN Shows(Append(app.events, result[3].value))
                   ELSE UNCHANGED calendar

-----------------------------------------------------------------------------
(* The page in a browser where process.env.API_KEY is set, opened on a     *)
(* ledger an earlier session saved.                                        *)

\* Two events of today that do not overlap, nobody registered: one place
\* and two places.
AppSaved ==
    <<NewStoredEvent(NewEvent(Nov3, <<T1000, T1100>>, 1), "k3x9"),
      NewStoredEvent(NewEvent(Nov3, <<T0900, T0930>>, 2), "p7q2")>>

\* What the organizer fills in: a free span, the span of the first saved
\* event, and a reversed span.
TypedForms ==
    {NewEvent(Nov3, span, 1) :
        span \in {<<T1100, T1130>>, <<T1000, T1100>>, <<T1100, T1000>>}}

AppInit ==
    /\ storage \in {NoItem, JSONstringify(AppSaved)}
    /\ events = loadEventsFromLocalStorage(storage)
    /\ pending = SetToBag({FetchAtMount})
    /\ last = NoOutcome
    /\ settled = EmptyBag
    /\ Render(calendar, AppToday, <<>>, AppToday, AppUtcOffset)
    /\ app = Page(FALSE, TRUE, TRUE)

\* handleChange for one field after the other, with the effect that
\* validates after each: the form holds what was typed.
FillsForm ==
    /\ app.started
    /\ app.isFormModalOpen
    /\ \E formData \in TypedForms :
          /\ app.form.formData # formData
          /\ app' = [app EXCEPT !.form.formData = formData,
                                !.form.formErrors = validateForm(formData)]
    /\ UNCHANGED <<events, storage, pending, last, settled, calendar>>

AppNext ==
    \/ \E view \in {"organizer", "participant"} : setView(view)
    \/ FetchSettles
    \/ \E eventId \in Ids : handleRegisterClick(eventId)
    \/ RegistrationSettles
    \/ handleOpenForm
    \/ handleCloseForm
    \/ FillsForm
    \/ handleSubmit
    \/ CreationSettles

SpecApp == AppInit /\ [][AppNext]_vars


-----------------------------------------------------------------------------
(* C32: in the participant view the alert 'Successfully registered for the *)
(* event!' is shown only for a registration the repository accepted: after *)
(* a registerForEvent that rejected, the user is shown the failure alert   *)
(* and no success alert.                                                   *)
C32_SuccessAlertOnlyWhenAccepted ==
    app.started =>
        /\ \A i \in DOMAIN app.alerts :
              app.alerts[i].text = SuccessAlert => app.alerts[i].after = "resolved"
        /\ (last.settled = "rejected" /\ app.alerts # <<>>) =>
              \E i \in DOMAIN app.alerts : app.alerts[i].text = FailureAlert


-----------------------------------------------------------------------------
(* C33: once every call in flight has settled, the list App holds equals   *)
(* the repository's array: the same events in the same order with the same *)
(* registeredParticipants, after the fetch of the mount and any creates    *)
(* and registrations of the page, accepted or refused.                     *)
C33_AppListEqualsRepository ==
    (app.started /\ pending = EmptyBag) => app.events = events


-----------------------------------------------------------------------------
(* C34: while a registration for an event started from the participant     *)
(* view is in flight, the register button of that event is disabled, so no *)
(* second registration for it can be started from the view before the      *)
(* first has settled, whatever is started or settles for other events.     *)
C34_RegisterDisabledWhileInFlight ==
    app.started =>
        \A call \in BagToSet(pending), event \in EventCards :
            (call.op = "registerForEvent" /\ call.id = event.id) =>
                ~RegisterEnabled(event)


-----------------------------------------------------------------------------
(* The organizer's side: the API key, the form and the proposal helper.    *)

\* What the organizer types into a field, as the value of the input.
FieldValues(id) ==
    IF id = "date" THEN {EmptyString, Nov3}
    ELSE IF id = "startTime" THEN {EmptyString, T1100}
    ELSE IF id = "endTime" THEN {EmptyString, T1130, T1000}
    ELSE IF id = "capacity" THEN {"", "1"}
    ELSE IF id = "organizer" THEN {"", " ", "Club"}
    ELSE IF id = "name" THEN {"", "Talk"}
    ELSE IF id = "location" THEN {"", "Hall"}
    ELSE {"", "About"}

\* parseInt(value, 10) || 0 of what a number input holds.
parseInt(value) == IF value = "1" THEN 1 ELSE 0

\* The text generateContent answers with.
Proposal == "Proposal"

\* setFormErrors(prev => ({ ...prev, description: `Failed to generate
\* proposal: ${err.message}` }))
ProposalFailed(prev, message) ==
    {entry \in prev : entry.key # "description"}
    \cup {FormError("description", "Failed to generate proposal: " \o message)}

\* The page of a browser with or without window.aistudio and with or
\* without process.env.API_KEY; hasSelectedApiKey answers either way.
FormInit ==
    /\ storage = NoItem
    /\ events = loadEventsFromLocalStorage(storage)
    /\ pending = SetToBag({FetchAtMount})
    /\ last = NoOutcome
    /\ settled = EmptyBag
    /\ Render(calendar, AppToday, <<>>, AppToday, AppUtcOffset)
    /\ \E aistudio \in BOOLEAN, envKey \in BOOLEAN, hasKey \in BOOLEAN :
          app = Page(aistudio, envKey, IF aistudio THEN hasKey ELSE envKey)

\* The click on Select API Key, shown in place of the organizer's dashboard:
\* with window.aistudio the dialog opens and the key counts as selected, or
\* opening it fails; without it the page alerts and stays as it is.
handleSelectApiKey ==
    /\ app.started
    /\ app.view = "organizer"
    /\ ~app.apiKeySelected
    /\ \E opened \in BOOLEAN :
          app' = [app EXCEPT
                    !.apiKeySelected = app.aistudio /\ opened,
                    !.error = IF ~app.aistudio THEN "API Key utility not found."
                              ELSE IF opened THEN null
                              ELSE "Failed to open API key selection."]
    /\ UNCHANGED <<events, storage, pending, last, settled, calendar>>

\* setFormData(prev => ({ ...prev, [id]: ... })) and the effect that
\* validates the new formData.
handleChange(id, value) ==
    /\ app.started
    /\ app.isFormModalOpen
    /\ \E formData \in {[app.form.formData EXCEPT
                            ![id] = IF id = "capacity" THEN parseInt(value)
                                    ELSE value]} :
          /\ formData # app.form.formData
          /\ app' = [app EXCEPT !.form.formData = formData,
                                !.form.formErrors = validateForm(formData)]
    /\ UNCHANGED <<events, storage, pending, last, settled, calendar>>

\* The Generate button: disabled without a name or a description, and by
\* loading while a proposal is generated.
GenerateEnabled ==
    /\ app.started
    /\ app.isFormModalOpen
    /\ ~app.form.generatingProposal
    /\ trim(app.form.formData.name) # ""
    /\ trim(app.form.formData.description) # ""

\* The click on it.  Without process.env.API_KEY generateEventProposal
\* throws before it awaits anything and the catch and the finally of the
\* handler follow at once; with it the request is in flight.
handleGenerateProposal ==
    /\ GenerateEnabled
    /\ IF app.envKey
       THEN app' = [app EXCEPT !.form.generatingProposal = TRUE,
                               !.form.proposalDetails = ""]
       ELSE app' = [app EXCEPT
                      !.form.proposalDetails = "",
                      !.form.formErrors = ProposalFailed(@, "no API key")]
    /\ UNCHANGED <<events, storage, pending, last, settled, calendar>>

\* The request settles while the form is open: with the text, which
\* becomes the description (the effect validates the new formData), or
\* with an error, which the catch puts into formErrors.
ProposalSettles ==
    /\ app.started
    /\ app.isFormModalOpen
    /\ app.form.generatingProposal
    /\ \E answered \in BOOLEAN :
          \E formData \in {[app.form.formData EXCEPT !.description = Proposal]} :
             app' = IF answered
                    THEN [app EXCEPT
                            !.form.generatingProposal = FALSE,
                            !.form.proposalDetails = Proposal,
                            !.form.formData = formData,
                            !.form.formErrors =
                                IF formData = app.form.formData THEN @
                                ELSE validateForm(formData)]
                    ELSE [app EXCEPT
                            !.form.generatingProposal = FALSE,
                            !.form.formErrors = ProposalFailed(@, "request failed")]
    /\ UNCHANGED <<events, storage, pending, last, settled, calendar>>

\* The fields in the order of the form.
FormFields ==
    <<"name", "organizer", "date", "capacity", "startTime", "endTime",
      "location", "description">>

\* The organizer fills the form from the top: a field is typed into when
\* those above it hold something, and emptied when those below it are empty.
TypedInOrder(k, value) ==
    LET held(j) == app.form.formData[FormFields[j]] # InitialFormData[FormFields[j]]
        empties ==
            IF FormFields[k] = "capacity" THEN parseInt(value) = 0
            ELSE value = InitialFormData[FormFields[k]]
    IN  /\ \A j \in 1..(k - 1) : held(j)
        /\ empties => \A j \in (k + 1)..Len(FormFields) : ~held(j)

TypesField(k, value) ==
    /\ app.started
    /\ app.isFormModalOpen
    /\ TypedInOrder(k, value)
    /\ handleChange(FormFields[k], value)

FormNext ==
    \/ \E view \in {"organizer", "participant"} : setView(view)
    \/ FetchSettles
    \/ handleSelectApiKey
    \/ handleOpenForm
    \/ handleCloseForm
    \/ \E k \in DOMAIN FormFields :
          \E value \in FieldValues(FormFields[k]) : TypesField(k, value)
    \/ handleGenerateProposal
    \/ ProposalSettles
    \/ handleSubmit
    \/ CreationSettles

SpecForm == FormInit /\ [][FormNext]_vars


-----------------------------------------------------------------------------
(* C31: creating an event does not depend on the proposal helper: with no  *)
(* API key selected the organizer's view still offers the dashboard with   *)
(* the form, and whenever the form is open with valid data and nothing is  *)
(* being submitted, after a failed generateEventProposal included, the     *)
(* Create Event button is enabled, so that createEvent is called for it.   *)
C31_CreationWithoutProposal ==
    app.started =>
        /\ app.view = "organizer" => DashboardRendered
        /\ (/\ app.isFormModalOpen
            /\ ~app.isSubmitting
            /\ validateForm(app.form.formData) = {}) => SubmitEnabled

====
